---- MODULE Spec2Model ----
(***************************************************************************)
(* The base API client of the Kling SDK (src/kling/base.py): the response  *)
(* decoder _handle_response behind post/get/post_async/get_async, and the  *)
(* polling loops wait_for_completion / wait_for_completion_async; and the  *)
(* capability adapters of src/kling/api that sit on top of it.             *)
(*                                                                         *)
(* A behaviour follows one call of the client from the state its           *)
(* constructor leaves: the client keeps nothing from one call to the next  *)
(* but the open or closed state of its two HTTP clients.                   *)
(*                                                                         *)
(* Time is a wall clock `now` counted in whole seconds.  A status fetch    *)
(* takes between 0 and MaxLatency seconds; a sleep takes its argument (any *)
(* oversleep is indistinguishable from latency of the fetch that follows,  *)
(* because the loop reads the clock only after a fetch).                   *)
(***************************************************************************)
EXTENDS Integers, Sequences, FiniteSets, TLC

\* ---------------------------------------------------------------- bounds
MaxInterval == 3
MaxTimeout  == 4
MaxLatency  == 2
\* the clock reading when the client is constructed
StartClock  == 7
\* cap of the fetch counter; only a loop that does not advance the clock
\* (poll_interval <= 0) can reach it
MaxFetches  == MaxTimeout + 3

PollIntervals == (0 - 1)..MaxInterval
Timeouts      == (0 - 1)..MaxTimeout
Latencies     == 0..MaxLatency
TaskIds       == {"task-1"}

\* ---------------------------------------------------- program constants
TokenLifetime     == 1800
NotBeforeSkew     == 5
DefaultMaxRetries == 3
AccessKey         == "ak-xxx"
\* the endpoint a caller of post/get names
RawEndpoint == [path |-> "/v1/videos/text2video", task_id |-> ""]

\* ------------------------------------------------------ values of Python
None == "<None>"

\* The statuses a server reports; "COMPLETED" is one the loop does not know.
Statuses == {"submitted", "processing", "succeed", "failed", "COMPLETED"}
Terminal == {"succeed", "failed"}
StatusMsgs == {None, "", "quota exceeded"}

\* A TaskResponse snapshot as returned by get_task_func.
TaskResponse(id, status, msg) ==
    [task_id |-> id, task_status |-> status, task_status_msg |-> msg]

NoTask == TaskResponse("", "", None)

\* Python's `x or default` on an Optional[str].
Or(x, default) == IF x = None \/ x = "" THEN default ELSE x

\* ------------------------------------------------------------ exceptions
KlingAPIError(message, code, request_id) ==
    [cls |-> "KlingAPIError", message |-> message, code |-> code,
     request_id |-> request_id]

\* KlingTimeoutError(f"Task {task_id} did not complete within {timeout} seconds")
KlingTimeoutError(id, t) ==
    [cls |-> "KlingTimeoutError",
     message |-> [template |-> "Task {task_id} did not complete within {timeout} seconds",
                  task_id |-> id, timeout |-> t]]

\* time.sleep(secs) with secs < 0
SleepValueError ==
    [cls |-> "ValueError", message |-> "sleep length must be non-negative"]

NoOutcome  == [kind |-> "none"]
Return(v)  == [kind |-> "return", value |-> v]
Raise(e)   == [kind |-> "raise", error |-> e]

\* ------------------------------------------------------- HTTP responses
HttpStatuses == {200, 401, 500}
Codes        == {0, 1200, 51004}
Messages     == {"insufficient balance"}
RequestIds   == {"abc"}
Keys         == {"code", "message", "request_id", "data"}

\* A response body.  kind "text" is a body response.json() cannot parse,
\* kind "array" is JSON that is not an object, kind "object" is a JSON object
\* holding the keys in `has` (the other fields are fillers, never read).
TextBody  == [kind |-> "text", has |-> {}, code |-> 0, message |-> "",
              request_id |-> "", data |-> ""]
ArrayBody == [kind |-> "array", has |-> {}, code |-> 0, message |-> "",
              request_id |-> "", data |-> ""]
JsonObject(has, code, message, request_id) ==
    [kind |-> "object", has |-> has,
     code |-> IF "code" \in has THEN code ELSE 0,
     message |-> IF "message" \in has THEN message ELSE "",
     request_id |-> IF "request_id" \in has THEN request_id ELSE "",
     data |-> IF "data" \in has THEN "task" ELSE ""]

Bodies ==
    {TextBody, ArrayBody} \cup
    {JsonObject(h, c, m, r) : h \in SUBSET Keys, c \in Codes, m \in Messages,
                              r \in RequestIds}

Responses == [status_code : HttpStatuses, body : Bodies]
NoResponse == [status_code |-> 0, body |-> TextBody]

\* f"{endpoint}/{task_id}"; task_id "" is the endpoint itself.
Url(path, id) == [path |-> path, task_id |-> id]

\* A request body: the keys of the dict that model_dump(exclude_none=True)
\* gave, with the values of the fields the adapters differ in.
Json(keys, image, image_list, external_task_id) ==
    [keys |-> keys, image |-> image, image_list |-> image_list,
     external_task_id |-> external_task_id]
NoJson == Json({}, "", <<>>, "")

NoHeaders == [Authorization |-> <<>>, ContentType |-> ""]
NoRequest == [method |-> "", async |-> FALSE, url |-> Url("", ""),
              json |-> NoJson, headers |-> NoHeaders, sent_at |-> 0]

\* dict.get(key, default)
Get(d, key, default) == IF key \in d.has THEN d[key] ELSE default

\* -------------------------------------------------------------- adapters
Adapters ==
    {"text_to_video", "image_to_video", "video_extension", "avatar",
     "lip_sync", "video_effects", "text_to_audio", "video_to_audio", "tts"}

\* self.endpoint of each adapter (image_to_video: self.single_endpoint,
\* lip_sync: self.lipsync_endpoint)
Endpoint(a) ==
    CASE a = "text_to_video"   -> "/v1/videos/text2video"
      [] a = "image_to_video"  -> "/v1/videos/image2video"
      [] a = "video_extension" -> "/v1/videos/video-extend"
      [] a = "avatar"          -> "/v1/videos/avatar/image2video"
      [] a = "lip_sync"        -> "/v1/videos/advanced-lip-sync"
      [] a = "video_effects"   -> "/v1/videos/effects"
      [] a = "text_to_audio"   -> "/v1/audio/text-to-audio"
      [] a = "video_to_audio"  -> "/v1/audio/video-to-audio"
      [] a = "tts"             -> "/v1/audio/tts"
MultiEndpoint    == "/v1/videos/multi-image2video"
IdentifyEndpoint == "/v1/videos/Identify-face"

\* The public methods each adapter class defines (each with its _async twin).
Methods(a) ==
    CASE a \in {"text_to_video", "image_to_video", "video_extension", "avatar",
                "video_effects"}
           -> {"create", "get", "list", "wait_for_completion"}
      [] a = "lip_sync"
           -> {"identify_faces", "create", "get", "list", "wait_for_completion"}
      [] a \in {"text_to_audio", "video_to_audio"}
           -> {"create", "get", "wait_for_completion"}
      [] a = "tts" -> {"create"}

\* getattr(adapter, name) for a method the class does not define
NoAttribute(a, name) ==
    [cls |-> "AttributeError", obj |-> a, name |-> name]

\* the endpoint adapter.get(task_id) reads, for the get a wait call was given
StatusEndpoint(f) ==
    IF f.adapter = "image_to_video" /\ f.multi_image
    THEN MultiEndpoint ELSE Endpoint(f.adapter)

\* What a status fetch can raise instead of returning a snapshot: the API
\* error of _handle_response, or the transport's connection error.
ConnectError == [cls |-> "httpx.ConnectError", message |-> "connection failed"]
FetchErrors ==
    {[cls |-> "KlingAPIError", message |-> "insufficient balance",
      code |-> 51004, request_id |-> "abc"],
     ConnectError}

\* the arguments tried on the adapters' wait_for_completion
AdapterWaitIds       == {"ext-x"}
AdapterWaitIntervals == 1..2
AdapterWaitTimeouts  == 1..2

\* ------------------------------------------------------- request models
\* The pydantic model each create validates its arguments with.
RequestModel(a, multi) ==
    CASE a = "text_to_video"   -> "TextToVideoRequest"
      [] a = "image_to_video"  -> IF multi THEN "MultiImageToVideoRequest"
                                           ELSE "ImageToVideoRequest"
      [] a = "video_extension" -> "VideoExtensionRequest"
      [] a = "avatar"          -> "AvatarRequest"
      [] a = "lip_sync"        -> "LipSyncRequest"
      [] a = "video_effects"   -> "VideoEffectsRequest"
      [] a = "text_to_audio"   -> "TextToAudioRequest"
      [] a = "video_to_audio"  -> "VideoToAudioRequest"
      [] a = "tts"             -> "TTSRequest"

\* the fields declared with Field(...)
Required(model) ==
    CASE model = "TextToVideoRequest"       -> {"prompt"}
      [] model = "ImageToVideoRequest"      -> {}
      [] model = "MultiImageToVideoRequest" -> {"image_list", "prompt"}
      [] model = "VideoExtensionRequest"    -> {"video_id"}
      [] model = "AvatarRequest"            -> {"image"}
      [] model = "LipSyncRequest"           -> {"session_id", "face_choose"}
      [] model = "IdentifyFaceRequest"      -> {}
      [] model = "VideoEffectsRequest"      -> {"effect_scene", "input"}
      [] model = "TextToAudioRequest"       -> {"prompt", "duration"}
      [] model = "VideoToAudioRequest"      -> {}
      [] model = "TTSRequest"               -> {"text", "voice_id", "voice_language"}

\* every field the model declares; pydantic drops a keyword it does not
\* declare (no model sets `extra`)
Declared(model) ==
    CASE model = "TextToVideoRequest" ->
           {"model_name", "prompt", "negative_prompt", "cfg_scale", "mode",
            "camera_control", "aspect_ratio", "duration", "callback_url",
            "external_task_id"}
      [] model = "ImageToVideoRequest" ->
           {"model_name", "image", "image_tail", "prompt", "negative_prompt",
            "cfg_scale", "mode", "static_mask", "dynamic_masks",
            "camera_control", "duration", "callback_url", "external_task_id"}
      [] model = "MultiImageToVideoRequest" ->
           {"model_name", "image_list", "prompt", "negative_prompt", "mode",
            "duration", "aspect_ratio", "callback_url", "external_task_id"}
      [] model = "VideoExtensionRequest" ->
           {"video_id", "prompt", "negative_prompt", "cfg_scale", "callback_url"}
      [] model = "AvatarRequest" ->
           {"image", "audio_id", "sound_file", "prompt", "mode", "callback_url",
            "external_task_id"}
      [] model = "LipSyncRequest" ->
           {"session_id", "face_choose", "callback_url"}
      [] model = "IdentifyFaceRequest" -> {"video_id", "video_url"}
      [] model = "VideoEffectsRequest" ->
           {"effect_scene", "input", "callback_url", "external_task_id"}
      [] model = "TextToAudioRequest" ->
           {"prompt", "duration", "external_task_id", "callback_url"}
      [] model = "VideoToAudioRequest" ->
           {"video_id", "video_url", "sound_effect_prompt", "bgm_prompt",
            "asmr_mode", "external_task_id", "callback_url"}
      [] model = "TTSRequest" ->
           {"text", "voice_id", "voice_language", "voice_speed"}

\* the fields declared with a default other than None
Defaults(model) ==
    CASE model = "TextToVideoRequest" ->
           {"model_name", "cfg_scale", "mode", "aspect_ratio", "duration"}
      [] model = "ImageToVideoRequest" ->
           {"model_name", "cfg_scale", "mode", "duration"}
      [] model = "MultiImageToVideoRequest" ->
           {"model_name", "mode", "duration", "aspect_ratio"}
      [] model = "VideoExtensionRequest" -> {"cfg_scale"}
      [] model = "AvatarRequest"         -> {"mode"}
      [] model = "LipSyncRequest"        -> {}
      [] model = "IdentifyFaceRequest"   -> {}
      [] model = "VideoEffectsRequest"   -> {}
      [] model = "TextToAudioRequest"    -> {}
      [] model = "VideoToAudioRequest"   -> {"asmr_mode"}
      [] model = "TTSRequest"            -> {"voice_speed"}

\* image_list of MultiImageToVideoRequest: min_length=1, max_length=4
MinImages == 1
MaxImages == 4

\* An optional list argument: None, or the list given.
ListArg(given, items) == [given |-> given, items |-> items]
NoList == ListArg(FALSE, <<>>)
\* bool(l) of Python: None and [] are false
Truthy(l) == l.given /\ Len(l.items) > 0
\* `a or b` on optional lists
OrList(a, b) == IF Truthy(a) THEN a ELSE b

\* The arguments of a create call: the three named arguments of
\* image_to_video.create, the other keywords given (`given`, with `invalid`
\* telling that one of them has a value its field rejects), and the
\* external_task_id keyword ("" when it is not given).
Kwargs(image, images, image_list, given, invalid, external_task_id) ==
    [image |-> image, images |-> images, image_list |-> image_list,
     given |-> given, invalid |-> invalid, external_task_id |-> external_task_id]
NoKwargs == Kwargs("", NoList, NoList, {}, FALSE, "")

Call(a, method, async, id, kw) ==
    [adapter |-> a, method |-> method, async |-> async, task_id |-> id,
     kwargs |-> kw]
NoCall == Call("", "", FALSE, "", NoKwargs)

\* pydantic's error for arguments the model rejects
ValidationError(model) == [cls |-> "ValidationError", model |-> model]

\* ----------------------------------------------------------------- state
VARIABLES
    now,            \* time.time()
    pc,             \* "idle", "fetch", "sleep", "done": position of the wait call
    mode,           \* "none", "sync" (wait_for_completion), "async"
    task_id,        \* arguments of the wait call
    poll_interval,
    timeout,
    start_time,     \* local of the wait call
    task,           \* the snapshot the last fetch returned
    fetches,        \* calls of get_task_func made by the wait call
    sleeps,         \* calls of sleep(poll_interval) made by the wait call
    pending_seen,   \* fetches that returned a non-terminal status
    outcome,        \* what the last call returned or raised
    request,        \* the last request post/get/post_async/get_async sent
    response,       \* the response the transport gave for it
    get_task_func,  \* the status fetch the wait call was given
    max_retries,    \* self.max_retries
    closed,         \* which of self._client / self._async_client are closed
    call,           \* the adapter method called, with its arguments
    wake,           \* concurrent polls: when the await each is in completes
    alone           \* concurrent polls: the time each has spent in its own
                    \* fetches and sleeps

pollvars == <<pc, mode, task_id, poll_interval, timeout, start_time, task,
              fetches, sleeps, pending_seen, get_task_func>>

vars == <<now, pc, mode, task_id, poll_interval, timeout, start_time, task,
          fetches, sleeps, pending_seen, outcome, request, response,
          get_task_func, max_retries, closed, call, wake, alone>>

\* get_task_func of a caller that passes a function of its own
CallerFunc == [adapter |-> "", multi_image |-> FALSE]
\* max_retries: the default and a client configured not to retry
RetrySettings == {0, DefaultMaxRetries}
AllOpen == [client |-> FALSE, async_client |-> FALSE]

\* No call has been made on the client yet.
Idle == pc = "idle" /\ outcome.kind = "none" /\ closed = AllOpen

Init ==
    /\ now = StartClock
    /\ pc = "idle"
    /\ mode = "none"
    /\ task_id = ""
    /\ poll_interval = 0
    /\ timeout = 0
    /\ start_time = 0
    /\ task = NoTask
    /\ fetches = 0
    /\ sleeps = 0
    /\ pending_seen = 0
    /\ outcome = NoOutcome
    /\ request = NoRequest
    /\ response = NoResponse
    /\ get_task_func = CallerFunc
    /\ max_retries \in RetrySettings
    /\ closed = AllOpen
    /\ call = NoCall
    /\ wake = 0
    /\ alone = 0

\* Variant: the token is minted once, when the wait call starts, and reused.
_generate_jwt_token_Cached ==
    [iss |-> AccessKey, exp |-> start_time + TokenLifetime,
     nbf |-> start_time - NotBeforeSkew]

\* -------------------------------------------------- _generate_jwt_token
_generate_jwt_token ==
    [iss |-> AccessKey, exp |-> now + TokenLifetime, nbf |-> now - NotBeforeSkew]

_get_headers ==
    [Authorization |-> <<"Bearer", _generate_jwt_token>>,
     ContentType |-> "application/json"]

\* ------------------------------------------------------ _handle_response
AttributeError ==
    [cls |-> "AttributeError", message |-> "object has no attribute 'get'"]

\* Variant: the envelope code is looked at only for an HTTP error status.
_handle_response_StatusGated(resp) ==
    IF resp.body.kind = "text"
    THEN Raise(KlingAPIError("Invalid JSON response from API", 0 - 1, ""))
    ELSE IF resp.body.kind # "object"
    THEN Raise(AttributeError)
    ELSE IF resp.status_code >= 400 /\ Get(resp.body, "code", 0) # 0
    THEN Raise(KlingAPIError(Get(resp.body, "message", "Unknown error"),
                             Get(resp.body, "code", 0 - 1),
                             Get(resp.body, "request_id", "")))
    ELSE Return(resp.body)

_handle_response(resp) ==
    IF resp.body.kind = "text"
    THEN Raise(KlingAPIError("Invalid JSON response from API", 0 - 1, ""))
    ELSE IF resp.body.kind # "object"
    THEN Raise(AttributeError)
    ELSE IF Get(resp.body, "code", 0) # 0
    THEN Raise(KlingAPIError(Get(resp.body, "message", "Unknown error"),
                             Get(resp.body, "code", 0 - 1),
                             Get(resp.body, "request_id", "")))
    ELSE Return(resp.body)

\* A request outside a wait call: the transport hands back `resp`, and the
\* call returns or raises what _handle_response makes of it.
Send(method, async, url, json) ==
    [method |-> method, async |-> async, url |-> url, json |-> json,
     headers |-> _get_headers, sent_at |-> now]

Exchange(method, async, url, json, resp) ==
    /\ Idle
    /\ request' = Send(method, async, url, json)
    /\ response' = resp
    /\ outcome' = _handle_response(resp)
    /\ UNCHANGED <<now, pollvars, max_retries, closed, call, wake, alone>>

post(endpoint, json, resp)       == Exchange("POST", FALSE, endpoint, json, resp)
post_async(endpoint, json, resp) == Exchange("POST", TRUE, endpoint, json, resp)
get(endpoint, resp)              == Exchange("GET", FALSE, endpoint, NoJson, resp)
get_async(endpoint, resp)        == Exchange("GET", TRUE, endpoint, NoJson, resp)

\* Variant: the budget is tested before the loop is entered.
wait_for_completion_CheckFirst(id, f, interval, t) ==
    /\ Idle
    /\ get_task_func' = f
    /\ pc' = IF t <= 0 THEN "done" ELSE "fetch"
    /\ mode' = "sync"
    /\ task_id' = id
    /\ poll_interval' = interval
    /\ timeout' = t
    /\ start_time' = now
    /\ task' = NoTask
    /\ fetches' = 0
    /\ sleeps' = 0
    /\ pending_seen' = 0
    /\ outcome' = IF t <= 0 THEN Raise(KlingTimeoutError(id, t)) ELSE NoOutcome
    /\ request' = NoRequest
    /\ response' = NoResponse
    /\ UNCHANGED <<now, max_retries, closed, call, wake, alone>>

\* ------------------------------------------------- wait_for_completion
Propagates_Retried(e, retries) ==
    IF retries > 0 THEN [outcome |-> NoOutcome, pc |-> "fetch"]
                   ELSE [outcome |-> Raise(e), pc |-> "done"]

\* `task = get_task_func(task_id)` stands in the loop outside any try block:
\* what it raises leaves the loop and the call, whatever max_retries is.
Propagates(e, retries) ==
    [outcome |-> Raise(e), pc |-> "done"]

\* A caller that caught the timeout error of its first wait_for_completion
\* calls it again for the same task; explored with the same arguments, for
\* the short waits of a caller's own get_task_func.
ResumeIntervals == 1..2
ResumeTimeouts  == 1..2
Resumable(id, f, interval, t) ==
    /\ pc = "done" /\ mode = "sync" /\ closed = AllOpen
    /\ outcome.kind = "raise" /\ outcome.error.cls = "KlingTimeoutError"
    /\ start_time = StartClock
    /\ id = task_id /\ f = get_task_func /\ f = CallerFunc
    /\ interval = poll_interval /\ interval \in ResumeIntervals
    /\ t = timeout /\ t \in ResumeTimeouts

\* Variant: the budget of the first call is carried over to the next one.
wait_for_completion_KeepBudget(id, f, interval, t) ==
    /\ Idle \/ Resumable(id, f, interval, t)
    /\ get_task_func' = f
    /\ pc' = "fetch"
    /\ mode' = "sync"
    /\ task_id' = id
    /\ poll_interval' = interval
    /\ timeout' = t
    /\ start_time' = IF Idle THEN now ELSE start_time
    /\ task' = NoTask
    /\ fetches' = 0
    /\ sleeps' = 0
    /\ pending_seen' = 0
    /\ outcome' = NoOutcome
    /\ request' = NoRequest
    /\ response' = NoResponse
    /\ UNCHANGED <<now, max_retries, closed, call, wake, alone>>

\* start_time = time.time(), then the loop is entered.
wait_for_completion(id, f, interval, t) ==
    /\ Idle \/ Resumable(id, f, interval, t)
    /\ get_task_func' = f
    /\ pc' = "fetch"
    /\ mode' = "sync"
    /\ task_id' = id
    /\ poll_interval' = interval
    /\ timeout' = t
    /\ start_time' = now
    /\ task' = NoTask
    /\ fetches' = 0
    /\ sleeps' = 0
    /\ pending_seen' = 0
    /\ outcome' = NoOutcome
    /\ request' = NoRequest
    /\ response' = NoResponse
    /\ UNCHANGED <<now, max_retries, closed, call, wake, alone>>

\* Variant: the timeout is tested before the status.
CheckTask_TimeoutFirst(t, id, elapsed, limit) ==
    IF elapsed >= limit THEN Raise(KlingTimeoutError(id, limit))
    ELSE IF t.task_status = "succeed" THEN Return(t)
    ELSE IF t.task_status = "failed"
         THEN Raise(KlingAPIError(Or(t.task_status_msg, "Task failed"), 0 - 1, ""))
    ELSE NoOutcome

\* Variant: the success status is spelled "succeeded".
CheckTask_Succeeded(t, id, elapsed, limit) ==
    IF t.task_status = "succeeded" THEN Return(t)
    ELSE IF t.task_status = "failed"
         THEN Raise(KlingAPIError(Or(t.task_status_msg, "Task failed"), 0 - 1, ""))
    ELSE IF elapsed >= limit THEN Raise(KlingTimeoutError(id, limit))
    ELSE NoOutcome

\* Variant: the budget is exhausted only when elapsed > timeout.
CheckTask_StrictElapsed(t, id, elapsed, limit) ==
    IF t.task_status = "succeed" THEN Return(t)
    ELSE IF t.task_status = "failed"
         THEN Raise(KlingAPIError(Or(t.task_status_msg, "Task failed"), 0 - 1, ""))
    ELSE IF elapsed > limit THEN Raise(KlingTimeoutError(id, limit))
    ELSE NoOutcome

\* Variant: "COMPLETED" is taken for a success status as well.
CheckTask_Completed(t, id, elapsed, limit) ==
    IF t.task_status \in {"succeed", "COMPLETED"} THEN Return(t)
    ELSE IF t.task_status = "failed"
         THEN Raise(KlingAPIError(Or(t.task_status_msg, "Task failed"), 0 - 1, ""))
    ELSE IF elapsed >= limit THEN Raise(KlingTimeoutError(id, limit))
    ELSE NoOutcome

\* The branches that follow `task = get_task_func(task_id)`; elapsed is
\* time.time() - start_time read after the fetch.
CheckTask(t, id, elapsed, limit) ==
    IF t.task_status = "succeed" THEN Return(t)
    ELSE IF t.task_status = "failed"
         THEN Raise(KlingAPIError(Or(t.task_status_msg, "Task failed"), 0 - 1, ""))
    ELSE IF elapsed >= limit THEN Raise(KlingTimeoutError(id, limit))
    ELSE NoOutcome

\* One pass of the loop body up to the sleep.
PollOnce ==
    /\ pc = "fetch"
    /\ mode = "sync"
    /\ fetches < MaxFetches
    /\ \/ \E d \in Latencies, s \in Statuses, m \in StatusMsgs :
            LET t == TaskResponse(task_id, s, m)
                r == CheckTask(t, task_id, (now + d) - start_time, timeout)
            IN /\ now' = now + d
               /\ task' = t
               /\ fetches' = fetches + 1
               /\ pending_seen' = IF s \in Terminal THEN pending_seen
                                                     ELSE pending_seen + 1
               /\ outcome' = r
               /\ pc' = IF r.kind = "none" THEN "sleep" ELSE "done"
       \* get_task_func raises: nothing in the loop catches it
       \/ \E d \in Latencies, e \in FetchErrors :
            /\ now' = now + d
            /\ fetches' = fetches + 1
            /\ outcome' = Propagates(e, max_retries).outcome
            /\ pc' = Propagates(e, max_retries).pc
            /\ UNCHANGED <<task, pending_seen>>
    \* an adapter's get sends GET <endpoint>/<task_id> through the client
    /\ request' = IF get_task_func = CallerFunc THEN request
                  ELSE Send("GET", FALSE, Url(StatusEndpoint(get_task_func), task_id),
                            NoJson)
    /\ UNCHANGED <<mode, task_id, poll_interval, timeout, start_time, sleeps,
                   response, get_task_func, max_retries, closed, call,
                   wake, alone>>

\* time.sleep(secs): a negative argument raises ValueError, any other one
\* takes that long.
time_sleep(secs) ==
    IF secs < 0 THEN [raises |-> TRUE, takes |-> 0]
    ELSE [raises |-> FALSE, takes |-> secs]

\* time.sleep(poll_interval)
PollSleep ==
    /\ pc = "sleep"
    /\ mode = "sync"
    /\ IF time_sleep(poll_interval).raises
       THEN /\ outcome' = Raise(SleepValueError)
            /\ pc' = "done"
            /\ UNCHANGED <<now, sleeps>>
       ELSE /\ now' = now + time_sleep(poll_interval).takes
            /\ sleeps' = sleeps + 1
            /\ pc' = "fetch"
            /\ UNCHANGED outcome
    /\ UNCHANGED <<mode, task_id, poll_interval, timeout, start_time, task,
                   fetches, pending_seen, request, response, get_task_func,
                   max_retries, closed, call, wake, alone>>

\* --------------------------------------------- wait_for_completion_async
\* start_time = time.time(), then the loop is entered.
wait_for_completion_async(id, f, interval, t) ==
    /\ Idle
    /\ get_task_func' = f
    /\ pc' = "fetch"
    /\ mode' = "async"
    /\ task_id' = id
    /\ poll_interval' = interval
    /\ timeout' = t
    /\ start_time' = now
    /\ task' = NoTask
    /\ fetches' = 0
    /\ sleeps' = 0
    /\ pending_seen' = 0
    /\ outcome' = NoOutcome
    /\ request' = NoRequest
    /\ response' = NoResponse
    /\ UNCHANGED <<now, max_retries, closed, call, wake, alone>>

\* Variant: at the timeout the last snapshot is handed back.
CheckTaskAsync_ReturnsLast(t, id, elapsed, limit) ==
    IF t.task_status = "succeed" THEN Return(t)
    ELSE IF t.task_status = "failed"
         THEN Raise(KlingAPIError(Or(t.task_status_msg, "Task failed"), 0 - 1, ""))
    ELSE IF elapsed >= limit THEN Return(t)
    ELSE NoOutcome

\* Variant: the server's failure message is dropped.
CheckTaskAsync_NoMessage(t, id, elapsed, limit) ==
    IF t.task_status = "succeed" THEN Return(t)
    ELSE IF t.task_status = "failed"
         THEN Raise(KlingAPIError("Task failed", 0 - 1, ""))
    ELSE IF elapsed >= limit THEN Raise(KlingTimeoutError(id, limit))
    ELSE NoOutcome

\* The branches that follow `task = await get_task_func(task_id)`; elapsed is
\* time.time() - start_time read after the fetch.
CheckTaskAsync(t, id, elapsed, limit) ==
    IF t.task_status = "succeed" THEN Return(t)
    ELSE IF t.task_status = "failed"
         THEN Raise(KlingAPIError(Or(t.task_status_msg, "Task failed"), 0 - 1, ""))
    ELSE IF elapsed >= limit THEN Raise(KlingTimeoutError(id, limit))
    ELSE NoOutcome

\* One pass of the loop body up to the sleep.
PollOnceAsync ==
    /\ pc = "fetch"
    /\ mode = "async"
    /\ fetches < MaxFetches
    /\ \/ \E d \in Latencies, s \in Statuses, m \in StatusMsgs :
            LET t == TaskResponse(task_id, s, m)
                r == CheckTaskAsync(t, task_id, (now + d) - start_time, timeout)
            IN /\ now' = now + d
               /\ task' = t
               /\ fetches' = fetches + 1
               /\ pending_seen' = IF s \in Terminal THEN pending_seen
                                                     ELSE pending_seen + 1
               /\ outcome' = r
               /\ pc' = IF r.kind = "none" THEN "sleep" ELSE "done"
       \* get_task_func raises: nothing in the loop catches it
       \/ \E d \in Latencies, e \in FetchErrors :
            /\ now' = now + d
            /\ fetches' = fetches + 1
            /\ outcome' = Propagates(e, max_retries).outcome
            /\ pc' = Propagates(e, max_retries).pc
            /\ UNCHANGED <<task, pending_seen>>
    \* an adapter's get sends GET <endpoint>/<task_id> through the client
    /\ request' = IF get_task_func = CallerFunc THEN request
                  ELSE Send("GET", TRUE, Url(StatusEndpoint(get_task_func), task_id),
                            NoJson)
    /\ UNCHANGED <<mode, task_id, poll_interval, timeout, start_time, sleeps,
                   response, get_task_func, max_retries, closed, call,
                   wake, alone>>

\* asyncio.sleep(delay): a delay <= 0 only yields to the event loop and
\* resumes at once; it never raises.
asyncio_sleep(delay) ==
    [raises |-> FALSE, takes |-> IF delay <= 0 THEN 0 ELSE delay]

\* await asyncio.sleep(poll_interval)
PollSleepAsync ==
    /\ pc = "sleep"
    /\ mode = "async"
    /\ now' = now + asyncio_sleep(poll_interval).takes
    /\ sleeps' = sleeps + 1
    /\ pc' = "fetch"
    /\ UNCHANGED outcome
    /\ UNCHANGED <<mode, task_id, poll_interval, timeout, start_time, task,
                   fetches, pending_seen, request, response, get_task_func,
                   max_retries, closed, call, wake, alone>>

\* ------------------------- image_to_video/: wait_for_task_completion
\* The asynchronous client of api/image_to_video/image_to_video.py has a
\* polling loop of its own.  It is explored with numeric timeouts and with
\* status fetches that return.
TaskStatuses == {"PROCESSING", "COMPLETED", "FAILED", "CANCELLED"}
TaskTerminal == {"COMPLETED", "FAILED", "CANCELLED"}
TaskErrors   == {None, "quota exceeded"}

\* TaskFailedError(f"Task {task_id} failed: {task.error.message}", task_id=task_id)
TaskFailedError(template, detail, id) ==
    [cls |-> "TaskFailedError",
     message |-> [template |-> template, task_id |-> id, detail |-> detail],
     task_id |-> id]

\* TimeoutError(f"Task {task_id} did not complete within {timeout} seconds")
TimeoutError(id, t) ==
    [cls |-> "TimeoutError",
     message |-> [template |-> "Task {task_id} did not complete within {timeout} seconds",
                  task_id |-> id, timeout |-> t]]

wait_for_task_completion(id, interval, t) ==
    /\ Idle
    /\ pc' = "fetch"
    /\ mode' = "task"
    /\ task_id' = id
    /\ poll_interval' = interval
    /\ timeout' = t
    /\ start_time' = now
    /\ task' = NoTask
    /\ fetches' = 0
    /\ sleeps' = 0
    /\ pending_seen' = 0
    /\ outcome' = NoOutcome
    /\ UNCHANGED <<now, request, response, get_task_func, max_retries, closed, call,
                   wake, alone>>

\* the body of `while True:` after the fetch, up to the sleep
CheckTaskStatus(t, id, elapsed, limit) ==
    IF t.task_status = "COMPLETED"
    THEN Return(t)
    ELSE IF t.task_status = "FAILED"
    THEN Raise(TaskFailedError("Task {task_id} failed",
                               IF t.task_status_msg = None THEN ""
                               ELSE t.task_status_msg, id))
    ELSE IF t.task_status = "CANCELLED"
    THEN Raise(TaskFailedError("Task {task_id} was cancelled", "", id))
    ELSE IF elapsed > limit
    THEN Raise(TimeoutError(id, limit))
    ELSE NoOutcome

PollTaskOnce ==
    /\ pc = "fetch"
    /\ mode = "task"
    /\ fetches < MaxFetches
    /\ \E d \in Latencies, s \in TaskStatuses, m \in TaskErrors :
         LET t == TaskResponse(task_id, s, m)
             r == CheckTaskStatus(t, task_id, (now + d) - start_time, timeout)
         IN /\ now' = now + d
            /\ task' = t
            /\ fetches' = fetches + 1
            /\ pending_seen' = IF s \in TaskTerminal THEN pending_seen
                                                      ELSE pending_seen + 1
            /\ outcome' = r
            /\ pc' = IF r.kind = "none" THEN "sleep" ELSE "done"
    /\ UNCHANGED <<mode, task_id, poll_interval, timeout, start_time, sleeps,
                   request, response, get_task_func, max_retries, closed, call,
                   wake, alone>>

\* await asyncio.sleep(poll_interval)
PollTaskSleep ==
    /\ pc = "sleep"
    /\ mode = "task"
    /\ now' = IF poll_interval <= 0 THEN now ELSE now + poll_interval
    /\ sleeps' = sleeps + 1
    /\ pc' = "fetch"
    /\ UNCHANGED <<mode, task_id, poll_interval, timeout, start_time, task,
                   fetches, pending_seen, outcome, request, response,
                   get_task_func, max_retries, closed, call,
                   wake, alone>>

\* ------------------------------------- the adapters' wait_for_completion
\* adapter.wait_for_completion(task_id, poll_interval, timeout): the client's
\* wait_for_completion with get_task_func = adapter.get (image_to_video
\* binds its multi_image argument into it).
adapter_wait_for_completion(a, id, multi, interval, t) ==
    IF "wait_for_completion" \in Methods(a)
    THEN wait_for_completion(id, [adapter |-> a, multi_image |-> multi], interval, t)
    ELSE /\ Idle
         /\ outcome' = Raise(NoAttribute(a, "wait_for_completion"))
         /\ UNCHANGED <<now, pollvars, request, response, max_retries, closed, call,
                   wake, alone>>

adapter_wait_for_completion_async(a, id, multi, interval, t) ==
    IF "wait_for_completion" \in Methods(a)
    THEN wait_for_completion_async(id, [adapter |-> a, multi_image |-> multi],
                                   interval, t)
    ELSE /\ Idle
         /\ outcome' = Raise(NoAttribute(a, "wait_for_completion_async"))
         /\ UNCHANGED <<now, pollvars, request, response, max_retries, closed, call,
                   wake, alone>>

\* multi_image is an argument of image_to_video alone
MultiFlags(a) == IF a = "image_to_video" THEN BOOLEAN ELSE {FALSE}

\* ------------------------------------------------------ adapter methods
\* The responses tried on the adapter methods: a complete success envelope,
\* a complete error envelope, and an error page that is not JSON.
AdapterResponses ==
    {r \in Responses :
        \/ r.status_code = 200 /\ r.body.kind = "object" /\ r.body.has = Keys
                               /\ r.body.code \in {0, 51004}
        \/ r.status_code = 500 /\ r.body.kind = "text"}

\* APIResponse(**response).data of a complete envelope: the task snapshot
SubmittedTask == TaskResponse("task-1", "submitted", None)
APIResponseData(r) ==
    IF r.kind = "raise" THEN r ELSE Return(SubmittedTask)
\* The responses tried on the list methods: those above, and JSON objects
\* that lack the `data` or the `code` key of the envelope.
ListResponses ==
    AdapterResponses \cup
    {r \in Responses :
        /\ r.status_code = 200 /\ r.body.kind = "object"
        /\ r.body.has \in {Keys \ {"data"}, Keys \ {"code"}}}
\* list: data = response.get("data", []);
\* return [TaskResponse(**item) for item in data]
TaskList(r) ==
    IF r.kind = "raise" THEN r
    ELSE IF "data" \in r.value.has
    THEN Return([tasks |-> <<SubmittedTask>>])
    ELSE Return([tasks |-> <<>>])
\* IdentifyFaceResponse(**response.get("data", {}))
IdentifyFaceResponse(r) ==
    IF r.kind = "raise" THEN r
    ELSE IF "data" \in r.value.has
    THEN Return([session_id |-> "s-1", face_data |-> <<>>])
    ELSE Raise(ValidationError("IdentifyFaceResponse"))

\* image_to_video.create: multi_images = images or image_list
multi_images(kw) == OrList(kw.images, kw.image_list)

\* `if multi_images:` of image_to_video.create; no other adapter has the branch
IsMulti(a, kw) == a = "image_to_video" /\ Truthy(multi_images(kw))

\* _create_multi_image: every str becomes ImageInput(image=img)
Normalize(items) == [i \in 1..Len(items) |-> [image |-> items[i]]]

\* the keywords the request model is built with that are not None
Keywords(a, kw) ==
    kw.given
    \cup (IF kw.external_task_id # "" THEN {"external_task_id"} ELSE {})
    \cup (IF a = "image_to_video" /\ ~IsMulti(a, kw) /\ kw.image # ""
          THEN {"image"} ELSE {})
    \cup (IF IsMulti(a, kw) THEN {"image_list"} ELSE {})

\* Request(**kwargs) accepts the keywords
Validates(a, kw) ==
    LET model == RequestModel(a, IsMulti(a, kw))
    IN /\ ~kw.invalid
       /\ Required(model) \subseteq Keywords(a, kw)
       /\ (IsMulti(a, kw) =>
              Len(multi_images(kw).items) \in MinImages..MaxImages)

\* the fields of Request(**kwargs) whose value is None: declared, not given
\* and without a default
Unset(a, kw) ==
    LET model == RequestModel(a, IsMulti(a, kw))
    IN Declared(model) \ (Keywords(a, kw) \cup Defaults(model))

\* request.model_dump(exclude_none=True): every field of the model but the
\* None ones, so the given fields and the defaults
model_dump(a, kw) ==
    LET model == RequestModel(a, IsMulti(a, kw))
        keys  == Declared(model) \ Unset(a, kw)
    IN Json(keys,
            IF a = "image_to_video" /\ "image" \in keys THEN kw.image ELSE "",
            IF IsMulti(a, kw) THEN Normalize(multi_images(kw).items) ELSE <<>>,
            IF "external_task_id" \in keys THEN kw.external_task_id ELSE "")

CreateEndpoint(a, kw) == IF IsMulti(a, kw) THEN MultiEndpoint ELSE Endpoint(a)

\* Variant: the request is posted before the arguments are validated.
create_PostFirst(a, kw, resp) ==
    /\ Idle
    /\ call' = Call(a, "create", FALSE, "", kw)
    /\ request' = Send("POST", FALSE, Url(CreateEndpoint(a, kw), ""), model_dump(a, kw))
    /\ response' = resp
    /\ outcome' = IF Validates(a, kw)
                  THEN APIResponseData(_handle_response(resp))
                  ELSE Raise(ValidationError(RequestModel(a, IsMulti(a, kw))))
    /\ UNCHANGED <<now, pollvars, max_retries, closed, wake, alone>>

\* adapter.create(**kwargs): validate, dump, post, read the envelope
create(a, kw, resp) ==
    /\ Idle
    /\ call' = Call(a, "create", FALSE, "", kw)
    /\ IF Validates(a, kw)
       THEN /\ request' = Send("POST", FALSE, Url(CreateEndpoint(a, kw), ""),
                               model_dump(a, kw))
            /\ response' = resp
            /\ outcome' = APIResponseData(_handle_response(resp))
       ELSE /\ outcome' = Raise(ValidationError(RequestModel(a, IsMulti(a, kw))))
            /\ UNCHANGED <<request, response>>
    /\ UNCHANGED <<now, pollvars, max_retries, closed, wake, alone>>

create_async(a, kw, resp) ==
    /\ Idle
    /\ call' = Call(a, "create", TRUE, "", kw)
    /\ IF Validates(a, kw)
       THEN /\ request' = Send("POST", TRUE, Url(CreateEndpoint(a, kw), ""),
                               model_dump(a, kw))
            /\ response' = resp
            /\ outcome' = APIResponseData(_handle_response(resp))
       ELSE /\ outcome' = Raise(ValidationError(RequestModel(a, IsMulti(a, kw))))
            /\ UNCHANGED <<request, response>>
    /\ UNCHANGED <<now, pollvars, max_retries, closed, wake, alone>>

\* lip_sync.identify_faces(**kwargs) and identify_faces_async
identify_faces(async, kw, resp) ==
    /\ Idle
    /\ call' = Call("lip_sync", "identify_faces", async, "", kw)
    /\ IF ~kw.invalid
       THEN /\ request' = Send("POST", async, Url(IdentifyEndpoint, ""),
                               Json(kw.given \cap Declared("IdentifyFaceRequest"),
                                    "", <<>>, ""))
            /\ response' = resp
            /\ outcome' = IdentifyFaceResponse(_handle_response(resp))
       ELSE /\ outcome' = Raise(ValidationError("IdentifyFaceRequest"))
            /\ UNCHANGED <<request, response>>
    /\ UNCHANGED <<now, pollvars, max_retries, closed, wake, alone>>

\* getattr(adapter, method)(...) for get and list, with their _async twins:
\* GET <endpoint>/<task_id> and GET <endpoint> (the page arguments of list
\* are query parameters, left out of the request record)
adapter_get(a, async, id, multi, resp) ==
    /\ Idle
    /\ call' = Call(a, "get", async, id, NoKwargs)
    /\ IF "get" \in Methods(a)
       THEN /\ request' = Send("GET", async,
                               Url(StatusEndpoint([adapter |-> a,
                                                   multi_image |-> multi]), id),
                               NoJson)
            /\ response' = resp
            /\ outcome' = APIResponseData(_handle_response(resp))
       ELSE /\ outcome' = Raise(NoAttribute(a, "get"))
            /\ UNCHANGED <<request, response>>
    /\ UNCHANGED <<now, pollvars, max_retries, closed, wake, alone>>

\* get(task_id, multi_image: bool = False)
DefaultMultiImage == FALSE

\* image_to_video.get(task.task_id) with the default multi_image, called on
\* the task that image_to_video.create has just returned.  `call` keeps the
\* arguments of the create call.
get_after_create(resp) ==
    /\ pc = "idle" /\ mode = "none" /\ closed = AllOpen
    /\ call.adapter = "image_to_video" /\ call.method = "create" /\ ~call.async
    /\ outcome.kind = "return"
    /\ call' = [call EXCEPT !.method = "get", !.task_id = outcome.value.task_id]
    /\ request' = Send("GET", FALSE,
                       Url(StatusEndpoint([adapter |-> "image_to_video",
                                           multi_image |-> DefaultMultiImage]),
                           outcome.value.task_id),
                       NoJson)
    /\ response' = resp
    /\ outcome' = APIResponseData(_handle_response(resp))
    /\ UNCHANGED <<now, pollvars, max_retries, closed, wake, alone>>

adapter_list(a, async, multi, resp) ==
    /\ Idle
    /\ call' = Call(a, "list", async, "", NoKwargs)
    /\ IF "list" \in Methods(a)
       THEN /\ request' = Send("GET", async,
                               Url(StatusEndpoint([adapter |-> a,
                                                   multi_image |-> multi]), ""),
                               NoJson)
            /\ response' = resp
            /\ outcome' = TaskList(_handle_response(resp))
       ELSE /\ outcome' = Raise(NoAttribute(a, "list"))
            /\ UNCHANGED <<request, response>>
    /\ UNCHANGED <<now, pollvars, max_retries, closed, wake, alone>>

\* ---------------------------------------------------------------- close
\* The close operations are modelled on a client no call is running on.
\* httpx leaves a client that is already closed as it is.
close ==
    /\ pc = "idle" /\ outcome.kind = "none"
    /\ closed' = [closed EXCEPT !.client = TRUE]
    /\ UNCHANGED <<now, pollvars, outcome, request, response, max_retries, call,
                   wake, alone>>

close_async ==
    /\ pc = "idle" /\ outcome.kind = "none"
    /\ closed' = [closed EXCEPT !.async_client = TRUE]
    /\ UNCHANGED <<now, pollvars, outcome, request, response, max_retries, call,
                   wake, alone>>

\* `with client:` left normally or through an exception: self.close()
__exit__ == close

\* `async with client:` left: await self.close_async()
__aexit__ == close_async

\* the arguments tried on create and identify_faces
ImageArgs == {"", "c.jpg"}
ListArgs ==
    {NoList, ListArg(TRUE, <<>>), ListArg(TRUE, <<"a.jpg">>),
     ListArg(TRUE, <<"a.jpg", "b.jpg">>),
     ListArg(TRUE, [i \in 1..(MaxImages + 1) |-> "a.jpg"])}
ExternalIds == {"", "ext-x"}
CreateKwargs(a) ==
    IF a = "image_to_video"
    THEN {Kwargs(i, l1, l2, g, inv, x) :
            i \in ImageArgs, l1 \in ListArgs, l2 \in ListArgs,
            g \in {{}, {"prompt"}}, inv \in BOOLEAN, x \in ExternalIds}
    ELSE {Kwargs("", NoList, NoList, g, inv, x) :
            g \in (IF a = "video_effects" THEN {} ELSE {{}})
                  \cup {Required(RequestModel(a, FALSE))},
            inv \in BOOLEAN, x \in ExternalIds}
IdentifyKwargs ==
    {Kwargs("", NoList, NoList, g, inv, "") :
        g \in {{}, {"video_id"}}, inv \in BOOLEAN}

Next ==
    \/ \E id \in TaskIds, i \in PollIntervals, t \in Timeouts :
         wait_for_completion(id, CallerFunc, i, t)
    \/ PollOnce
    \/ PollSleep
    \/ \E id \in TaskIds, i \in PollIntervals, t \in Timeouts :
         wait_for_completion_async(id, CallerFunc, i, t)
    \/ PollOnceAsync
    \/ PollSleepAsync
    \/ \E a \in Adapters, id \in AdapterWaitIds, i \in AdapterWaitIntervals,
          t \in AdapterWaitTimeouts : \E m \in MultiFlags(a) :
         adapter_wait_for_completion(a, id, m, i, t)
    \/ \E a \in Adapters, id \in AdapterWaitIds, i \in AdapterWaitIntervals,
          t \in AdapterWaitTimeouts : \E m \in MultiFlags(a) :
         adapter_wait_for_completion_async(a, id, m, i, t)
    \/ \E a \in Adapters, resp \in AdapterResponses : \E kw \in CreateKwargs(a) :
         create(a, kw, resp)
    \/ \E a \in Adapters, resp \in AdapterResponses : \E kw \in CreateKwargs(a) :
         create_async(a, kw, resp)
    \/ \E async \in BOOLEAN, kw \in IdentifyKwargs, resp \in AdapterResponses :
         identify_faces(async, kw, resp)
    \/ \E a \in Adapters, async \in BOOLEAN, id \in AdapterWaitIds,
          resp \in AdapterResponses : \E m \in MultiFlags(a) :
         adapter_get(a, async, id, m, resp)
    \/ \E resp \in AdapterResponses : get_after_create(resp)
    \/ \E a \in Adapters, async \in BOOLEAN, resp \in ListResponses :
         \E m \in MultiFlags(a) : adapter_list(a, async, m, resp)
    \/ \E id \in TaskIds, i \in AdapterWaitIntervals, t \in AdapterWaitTimeouts :
         wait_for_task_completion(id, i, t)
    \/ PollTaskOnce
    \/ PollTaskSleep
    \/ close
    \/ close_async
    \/ __exit__
    \/ __aexit__
    \/ \E resp \in Responses : post(RawEndpoint, NoJson, resp)
    \/ \E resp \in Responses : post_async(RawEndpoint, NoJson, resp)
    \/ \E resp \in Responses : get(RawEndpoint, resp)
    \/ \E resp \in Responses : get_async(RawEndpoint, resp)

Spec == Init /\ [][Next]_vars

\* The blocking call runs to its next statement, and the event loop resumes a
\* coroutine whose await has completed: no loop step is postponed forever.
FairSpec ==
    /\ Spec
    /\ WF_vars(PollOnce) /\ WF_vars(PollSleep)
    /\ WF_vars(PollOnceAsync) /\ WF_vars(PollSleepAsync)

\* ------------------------- concurrent wait_for_completion_async calls
\* asyncio.gather(*[client.text_to_video.wait_for_completion_async(id, ...)]):
\* one coroutine per task id on one event loop and one client.  Each variable
\* of the loop is a function of the task id here; `now` is the one clock.
\* The event loop resumes a coroutine at the time its await completes.
Polls         == {"task-1", "task-2"}
ConcIntervals == 1..2
ConcTimeouts  == {1, 3}
ConcStatuses  == {"processing", "succeed", "failed"}
GatheredFunc  == [adapter |-> "text_to_video", multi_image |-> FALSE]

ConcInit ==
    /\ now = StartClock
    /\ pc = [p \in Polls |-> "idle"]
    /\ mode = "async"
    /\ task_id = [p \in Polls |-> p]
    /\ poll_interval = [p \in Polls |-> 0]
    /\ timeout = [p \in Polls |-> 0]
    /\ start_time = [p \in Polls |-> 0]
    /\ task = [p \in Polls |-> NoTask]
    /\ fetches = [p \in Polls |-> 0]
    /\ sleeps = [p \in Polls |-> 0]
    /\ pending_seen = [p \in Polls |-> 0]
    /\ outcome = [p \in Polls |-> NoOutcome]
    /\ request = NoRequest
    /\ response = NoResponse
    /\ get_task_func = GatheredFunc
    /\ max_retries = DefaultMaxRetries
    /\ closed = AllOpen
    /\ call = NoCall
    /\ wake = [p \in Polls |-> 0]
    /\ alone = [p \in Polls |-> 0]

concfixed == <<mode, task_id, request, response, get_task_func, max_retries,
               closed, call>>

\* Variant: start_time is kept on the client object, which every call shares.
LocalStart_Shared(st, p) ==
    CHOOSE m \in {st[q] : q \in Polls} : \A q \in Polls : st[q] <= m

\* start_time is a local variable of the coroutine
LocalStart(st, p) == st[p]

\* Variant: the loop sleeps with time.sleep, which holds the thread of the
\* event loop: no other coroutine runs before the sleep is over.
Suspends_Thread(p) == Polls \ {p}

\* `await asyncio.sleep(poll_interval)` and `await get_task_func(task_id)`
\* suspend the coroutine that awaits and no other: the coroutines that p's
\* await keeps from running.
Suspends(p) == {}

\* p can run: no coroutine that is asleep keeps it from running
Runnable(p) ==
    \A q \in Polls : (pc[q] = "sleep" /\ wake[q] > now) => p \notin Suspends(q)

\* The coroutine of p starts: start_time = time.time(), and the loop is
\* entered with the first `await get_task_func(task_id)`, answered d later.
ConcStart(p, interval, t, d) ==
    /\ pc[p] = "idle"
    /\ Runnable(p)
    /\ poll_interval' = [poll_interval EXCEPT ![p] = interval]
    /\ timeout' = [timeout EXCEPT ![p] = t]
    /\ start_time' = [start_time EXCEPT ![p] = now]
    /\ pc' = [pc EXCEPT ![p] = "fetch"]
    /\ wake' = [wake EXCEPT ![p] = now + d]
    /\ alone' = [alone EXCEPT ![p] = d]
    /\ UNCHANGED <<now, task, fetches, sleeps, pending_seen, outcome, concfixed>>

\* The fetch of p is answered: the rest of the loop body runs up to the sleep.
ConcFetched(p, s) ==
    LET t == TaskResponse(p, s, None)
        r == CheckTaskAsync(t, p, now - LocalStart(start_time, p), timeout[p])
        nap == IF poll_interval[p] <= 0 THEN 0 ELSE poll_interval[p]
    IN /\ pc[p] = "fetch"
       /\ wake[p] = now
       /\ Runnable(p)
       /\ task' = [task EXCEPT ![p] = t]
       /\ fetches' = [fetches EXCEPT ![p] = @ + 1]
       /\ pending_seen' = [pending_seen EXCEPT
                             ![p] = IF s \in Terminal THEN @ ELSE @ + 1]
       /\ outcome' = [outcome EXCEPT ![p] = r]
       /\ IF r.kind = "none"
          THEN /\ pc' = [pc EXCEPT ![p] = "sleep"]
               /\ wake' = [wake EXCEPT ![p] = now + nap]
               /\ alone' = [alone EXCEPT ![p] = @ + nap]
          ELSE /\ pc' = [pc EXCEPT ![p] = "done"]
               /\ UNCHANGED <<wake, alone>>
       /\ UNCHANGED <<now, poll_interval, timeout, start_time, sleeps, concfixed>>

\* The sleep of p is over: the next fetch goes out, answered d later.
ConcWoken(p, d) ==
    /\ pc[p] = "sleep"
    /\ wake[p] = now
    /\ Runnable(p)
    /\ fetches[p] < MaxFetches
    /\ sleeps' = [sleeps EXCEPT ![p] = @ + 1]
    /\ pc' = [pc EXCEPT ![p] = "fetch"]
    /\ wake' = [wake EXCEPT ![p] = now + d]
    /\ alone' = [alone EXCEPT ![p] = @ + d]
    /\ UNCHANGED <<now, poll_interval, timeout, start_time, task, fetches,
                   pending_seen, outcome, concfixed>>

\* Time passes while every running coroutine is suspended in an await that
\* has not completed yet.
Tick ==
    /\ \E p \in Polls : pc[p] \in {"fetch", "sleep"}
    /\ \A p \in Polls : pc[p] \in {"fetch", "sleep"} => wake[p] > now
    /\ now' = now + 1
    /\ UNCHANGED <<pc, poll_interval, timeout, start_time, task, fetches, sleeps,
                   pending_seen, outcome, wake, alone, concfixed>>

ConcNext ==
    \/ \E p \in Polls, i \in ConcIntervals, t \in ConcTimeouts, d \in Latencies :
         ConcStart(p, i, t, d)
    \/ \E p \in Polls, s \in ConcStatuses : ConcFetched(p, s)
    \/ \E p \in Polls, d \in Latencies : ConcWoken(p, d)
    \/ Tick

ConcSpec == ConcInit /\ [][ConcNext]_vars

\* The event loop runs every coroutine whose await has completed, and time
\* does not stop.
ConcFairSpec ==
    /\ ConcSpec
    /\ \A p \in Polls : WF_vars(\E s \in ConcStatuses : ConcFetched(p, s))
    /\ \A p \in Polls : WF_vars(\E d \in Latencies : ConcWoken(p, d))
    /\ WF_vars(Tick)

\* ------------------------------------------------------------ vocabulary
\* a wait_for_completion or wait_for_completion_async call of the client
Waiting   == mode \in {"sync", "async"}
\* a wait of either polling loop, with the statuses that end it
Polling   == mode # "none"
EndsLoop  == IF mode = "task" THEN TaskTerminal ELSE Terminal
\* a direct call of post/get/post_async/get_async has been made
Requested == request.method # "" /\ mode = "none" /\ call = NoCall
Raised(c) == outcome.kind = "raise" /\ outcome.error.cls = c
TimedOut  == Waiting /\ Raised("KlingTimeoutError")
Elapsed   == now - start_time
\* the part of the elapsed time spent inside fetches
FetchTime == Elapsed - sleeps * poll_interval
\* the last status fetch raised instead of returning a snapshot
FetchRaised == Waiting /\ task.task_status \notin Terminal /\ fetches > pending_seen
\* a request has gone out, from whatever operation
Sent      == request.method # ""
\* create or create_async of an adapter has been called
Created   == call.method = "create"
\* the class and code an except clause can tell two errors apart by
ClassAndCode(e) == <<e.cls, e.code>>
\* the reference images a call of image_to_video.create supplies
Supplied(kw) ==
    IF Truthy(kw.images) THEN Len(kw.images.items)
    ELSE IF Truthy(kw.image_list) THEN Len(kw.image_list.items)
    ELSE IF kw.image # "" THEN 1 ELSE 0
\* ceil(a / b) for b > 0
Ceil(a, b) == (a + b - 1) \div b

\* C1: a fetch sequence of k non-terminal statuses followed by "succeed" makes
\* the wait call return that succeeded task after exactly k+1 fetches and k
\* sleeps, with no fetch or sleep after the succeeded fetch.
C1_SucceedAfterPending ==
    (Waiting /\ task.task_status = "succeed") =>
        /\ pc = "done"
        /\ outcome.kind = "return"
        /\ outcome.value = task
        /\ fetches = pending_seen + 1
        /\ sleeps = pending_seen

\* [pending, pending, succeed]: 3 fetches, 2 sleeps.
C1_Witness ==
    /\ mode = "sync" /\ pc = "done" /\ outcome.kind = "return"
    /\ task.task_status = "succeed"
    /\ pending_seen = 2 /\ fetches = 3 /\ sleeps = 2

\* C2 as stated: with 0 < poll_interval < timeout and no terminal status, the
\* timeout error comes after ceil(T/i) fetches, plus or minus one.
C2_CeilFetches ==
    (TimedOut /\ 0 < poll_interval /\ poll_interval < timeout) =>
        /\ fetches >= Ceil(timeout, poll_interval) - 1
        /\ fetches <= Ceil(timeout, poll_interval) + 1

\* C2 amended: with 0 < poll_interval < timeout, every fetch returning and no
\* terminal status ever fetched, the wait call ends in the timeout error, after at least one and
\* at most ceil(T/i)+1 fetches, and after exactly ceil(T/i)+1 fetches when
\* the fetches take no time.
C2_TimeoutWithinCeil ==
    /\ []((TimedOut /\ 0 < poll_interval /\ poll_interval < timeout) =>
            /\ fetches >= 1
            /\ fetches <= Ceil(timeout, poll_interval) + 1
            /\ (FetchTime = 0 => fetches = Ceil(timeout, poll_interval) + 1))
    /\ ([](task.task_status \notin Terminal /\ ~FetchRaised) =>
          ((Waiting /\ 0 < poll_interval /\ poll_interval < timeout) ~> TimedOut))

C2_Witness ==
    /\ TimedOut /\ poll_interval = 1 /\ timeout = MaxTimeout
    /\ FetchTime = 0 /\ fetches = MaxTimeout + 1

\* C3: the timeout error is never raised before a status fetch was made,
\* whatever the timeout (zero, negative, shorter than one poll interval).
C3_FetchBeforeTimeout ==
    TimedOut => fetches >= 1

C3_Witness ==
    TimedOut /\ timeout <= 0 /\ fetches = 1 /\ sleeps = 0

\* C4: with timeout <= poll_interval and a task that stays non-terminal,
\* exactly one fetch is made before the timeout error.
C4_ExactlyOneFetch ==
    (TimedOut /\ timeout <= poll_interval) => fetches = 1

\* C5: a fetch that returns "failed" makes the wait call raise KlingAPIError at
\* once (no sleep, no further fetch, whatever is left of the timeout), with
\* the server's message when there is one and "Task failed" otherwise.
C5_FailedRaisesAtOnce ==
    (Waiting /\ task.task_status = "failed") =>
        /\ pc = "done"
        /\ Raised("KlingAPIError")
        /\ (task.task_status_msg \notin {None, ""} =>
               outcome.error.message = task.task_status_msg)
        /\ (task.task_status_msg \in {None, ""} =>
               outcome.error.message = "Task failed")
        /\ fetches = pending_seen + 1
        /\ sleeps = pending_seen

C5_Witness ==
    /\ mode = "async" /\ task.task_status = "failed"
    /\ task.task_status_msg = "quota exceeded"
    /\ Raised("KlingAPIError") /\ outcome.error.message = "quota exceeded"
    /\ Elapsed < timeout /\ fetches = 2

\* C6: the error raised for a failed task carries the id of that task.
C6_FailureCarriesTaskId ==
    (Waiting /\ task.task_status = "failed" /\ outcome.kind = "raise") =>
        task_id \in {outcome.error.message, outcome.error.request_id}

\* C7: a fetched status other than "succeed" and "failed" is treated as pending:
\* the wait call neither returns nor raises because of it; it goes on to the
\* timeout check (raising only when the time is up) and to the next poll.
C7_UnknownIsPending ==
    (Waiting /\ fetches > 0 /\ task.task_status \notin Terminal /\ ~FetchRaised) =>
        \/ pc \in {"sleep", "fetch"} /\ outcome.kind = "none"
                                     /\ (pc = "sleep" => Elapsed < timeout)
        \/ TimedOut /\ Elapsed >= timeout
        \/ Raised("ValueError") /\ mode = "sync" /\ poll_interval < 0

C7_Witness ==
    /\ mode = "sync" /\ task.task_status = "COMPLETED"
    /\ pc = "fetch" /\ fetches = 1 /\ sleeps = 1 /\ outcome.kind = "none"

\* C8: a wait call with poll_interval <= 0 fails fast: it never fetches a
\* second time with no delay after the first.
C8_NoBusyLoop ==
    (Waiting /\ poll_interval <= 0) => fetches < 2

\* C9: a response whose envelope has code # 0 makes post/get/post_async/
\* get_async raise KlingAPIError with that code, message and request_id,
\* whatever the HTTP status; every dict they return reads code 0.
C9_NonZeroCodeRaises ==
    Requested =>
        /\ (response.body.kind = "object" /\ "code" \in response.body.has
                /\ response.body.code # 0) =>
               /\ Raised("KlingAPIError")
               /\ outcome.error.code = response.body.code
               /\ ("message" \in response.body.has =>
                      outcome.error.message = response.body.message)
               /\ ("request_id" \in response.body.has =>
                      outcome.error.request_id = response.body.request_id)
        /\ (outcome.kind = "return" => Get(outcome.value, "code", 0) = 0)

C9_Witness ==
    /\ request.method = "GET" /\ response.status_code = 200
    /\ response.body.has = Keys /\ response.body.code = 51004
    /\ Raised("KlingAPIError") /\ outcome.error.code = 51004
    /\ outcome.error.message = "insufficient balance"
    /\ outcome.error.request_id = "abc"

\* C10: a response with a non-2xx HTTP status is never returned by post/get
\* as a successful result.
C10_Non2xxIsFailure ==
    (Requested /\ response.status_code \notin 200..299) => outcome.kind = "raise"

\* C11: the error raised for a body that cannot be parsed never has the class
\* and code of the error raised for an API rejection (envelope code # 0), nor
\* those of the error raised for a task that reached "failed".
C11_MalformedDistinct ==
    (Requested /\ response.body.kind = "text") =>
        /\ outcome.kind = "raise"
        /\ \A r \in Responses :
              (r.body.kind = "object" /\ Get(r.body, "code", 0) # 0) =>
                  ClassAndCode(outcome.error)
                      # ClassAndCode(_handle_response(r).error)
        /\ \A m \in StatusMsgs :
              ClassAndCode(outcome.error)
                  # ClassAndCode(CheckTask(TaskResponse("task-1", "failed", m),
                                           "task-1", 0, 1).error)

\* C12: image_to_video.create and create_async post to the multi-image
\* endpoint with an image_list of {image} entries exactly when more than one
\* reference image is supplied; with one image (as `image` or as a plural
\* list of one) or an empty plural list they post to the single-image
\* endpoint with the single-image body.
C12_MultiOnlyForSeveral ==
    (Created /\ call.adapter = "image_to_video" /\ Sent) =>
        IF Supplied(call.kwargs) > 1
        THEN /\ request.url.path = MultiEndpoint
             /\ request.json.image_list = Normalize(multi_images(call.kwargs).items)
             /\ "image" \notin request.json.keys
        ELSE /\ request.url.path = Endpoint("image_to_video")
             /\ request.json.image_list = <<>>
             /\ "image_list" \notin request.json.keys

\* C13: every adapter, TTS and the two audio adapters included, has create,
\* get, list and wait_for_completion: no call of one of them ends in an
\* AttributeError, and a call of wait_for_completion runs the client's loop
\* with that adapter's get and the caller's id, interval and timeout.
C13_AdaptersExposeAll ==
    /\ ~Raised("AttributeError")
    /\ (Waiting /\ get_task_func # CallerFunc) =>
          /\ task_id \in AdapterWaitIds
          /\ poll_interval \in AdapterWaitIntervals
          /\ timeout \in AdapterWaitTimeouts

C15_CloseReleasesBoth ==
    (closed # AllOpen) => (closed.client /\ closed.async_client)

\* C16: a create, create_async or identify_faces call whose arguments the
\* request model rejects raises the validation error with no request sent
\* and no response read.
C16_ValidationBeforeRequest ==
    (call # NoCall /\ Raised("ValidationError")
         /\ outcome.error.model # "IdentifyFaceResponse") =>
        /\ request = NoRequest
        /\ response = NoResponse

\* avatar.create() without the required image
C16_Witness ==
    /\ Created /\ call.adapter = "avatar" /\ ~call.async
    /\ call.kwargs.given = {}
    /\ outcome = Raise(ValidationError("AvatarRequest"))
    /\ request = NoRequest

C22_TimeoutLeavesTask ==
    /\ TimedOut =>
          \/ request = NoRequest
          \/ /\ request.method = "GET"
             /\ request.url = Url(StatusEndpoint(get_task_func), task_id)
    /\ (Waiting /\ pc = "fetch" /\ fetches = 0) =>
          start_time = now /\ sleeps = 0 /\ outcome = NoOutcome
    /\ (Waiting /\ start_time > StartClock) =>
          /\ (TimedOut => Elapsed >= timeout)
          /\ (pc = "sleep" => Elapsed < timeout)
          /\ (task.task_status = "succeed" => outcome = Return(task))

\* the second call sees the task pending once and then succeeded
C22_Witness ==
    /\ Waiting /\ start_time > StartClock
    /\ task.task_status = "succeed" /\ outcome = Return(task)
    /\ fetches = 2 /\ sleeps = 1

\* C23: a response body that is a JSON object but lacks a key of the
\* envelope {code, message, request_id, data} makes the request raise, and a
\* list call answered with such a body raises instead of returning tasks.
C23_MalformedEnvelope ==
    (/\ Sent /\ (Requested \/ call.method = "list")
     /\ response.body.kind = "object"
     /\ ~(Keys \subseteq response.body.has)) => outcome.kind = "raise"

\* C24: the JSON body of a create or create_async call holds no field the
\* caller did not supply, and no field whose value is None.
C24_OnlySuppliedFields ==
    (Created /\ Sent) =>
        /\ request.json.keys \subseteq Keywords(call.adapter, call.kwargs)
        /\ request.json.keys \cap Unset(call.adapter, call.kwargs) = {}

C19_ExternalIdSent ==
    (Created /\ Sent /\ call.kwargs.external_task_id # "") =>
        /\ "external_task_id" \in request.json.keys
        /\ request.json.external_task_id = call.kwargs.external_task_id

\* C20: after a fetch that returns a non-terminal status the loop raises the
\* timeout error exactly when the time elapsed since the start of the call is
\* >= timeout, the error naming the task id and the timeout; otherwise it goes
\* on to sleep.  No sleep follows the fetch that triggers the timeout.
C20_TimeoutInclusive ==
    (Polling /\ fetches > 0 /\ task.task_status \notin EndsLoop /\ ~FetchRaised) =>
        /\ (pc = "sleep" => Elapsed < timeout)
        /\ (outcome.kind = "raise"
               /\ outcome.error.cls \in {"KlingTimeoutError", "TimeoutError"}) =>
              /\ Elapsed >= timeout
              /\ outcome.error.message.task_id = task_id
              /\ outcome.error.message.timeout = timeout
              /\ sleeps = fetches - 1

\* C25: whenever wait_for_completion or wait_for_completion_async returns, the
\* value returned is the snapshot of the last fetch as it was fetched, its
\* status is "succeed", and the loop has ended; a failed or non-terminal
\* snapshot is never returned.
C25_ReturnsSucceededSnapshot ==
    /\ (Waiting /\ outcome.kind = "return") =>
          /\ pc = "done"
          /\ outcome.value = task
          /\ outcome.value.task_status = "succeed"
          /\ outcome.value.task_id = task_id
    /\ (Waiting /\ fetches > 0 /\ task.task_status # "succeed") =>
          outcome.kind # "return"

\* the asynchronous wait returns a succeeded snapshot that carries a message
C25_Witness ==
    /\ mode = "async" /\ outcome = Return(task)
    /\ task.task_status_msg # None /\ pending_seen = 1

\* C26: the blocking and the non-blocking wait do the same on the same input:
\* after a fetch that returned snapshot `task` with the same time elapsed both
\* take the same branch (return, task failure, timeout, or sleep), and the
\* sleep of poll_interval that follows ends the same way in both.
C26_SyncAsyncAgree ==
    (Waiting /\ fetches > 0 /\ ~FetchRaised) =>
        /\ CheckTask(task, task_id, Elapsed, timeout)
             = CheckTaskAsync(task, task_id, Elapsed, timeout)
        /\ (pc = "sleep" =>
               time_sleep(poll_interval) = asyncio_sleep(poll_interval))

\* C27: a terminal status wins over the timeout: a fetch that returns
\* "succeed" makes the wait return the task, and one that returns "failed"
\* makes it raise the task-failure error and not the timeout error, even when
\* the time elapsed at that fetch is >= timeout.
C27_TerminalBeforeTimeout ==
    (Waiting /\ Elapsed >= timeout) =>
        /\ (task.task_status = "succeed" => outcome = Return(task))
        /\ (task.task_status = "failed" =>
               Raised("KlingAPIError") /\ ~Raised("KlingTimeoutError"))

\* the second fetch comes back late, past the timeout, with "failed"
C27_Witness ==
    /\ mode = "sync" /\ timeout > 0 /\ Elapsed > timeout
    /\ task.task_status = "failed" /\ pending_seen = 1 /\ fetches = 2
    /\ Raised("KlingAPIError")

\* C28: for a task that image_to_video.create made through the multi-image
\* path, get(task_id) with the default arguments, which is also the fetch
\* of wait_for_completion(task_id) with the default arguments, asks the
\* multi-image status endpoint.
C28_StatusOfMultiImageTask ==
    (/\ call.adapter = "image_to_video" /\ call.method = "get" /\ Sent
     /\ IsMulti(call.adapter, call.kwargs)) =>
        request.url = Url(MultiEndpoint, call.task_id)

\* the reference images a call of image_to_video.create is given, and those
\* its request body holds
SuppliedImages(kw) ==
    (IF kw.image # "" THEN {kw.image} ELSE {})
    \cup {kw.images.items[i] : i \in 1..Len(kw.images.items)}
    \cup {kw.image_list.items[i] : i \in 1..Len(kw.image_list.items)}
BodyImages(json) ==
    (IF "image" \in json.keys THEN {json.image} ELSE {})
    \cup {json.image_list[i].image : i \in 1..Len(json.image_list)}

\* C29: image_to_video.create drops no reference image it is given: whatever
\* the combination of image, images and image_list, either no request is sent
\* (the call is rejected) or every image given is in the body of the request.
C29_NoImageDiscarded ==
    (Created /\ call.adapter = "image_to_video" /\ Sent) =>
        SuppliedImages(call.kwargs) \subseteq BodyImages(request.json)

\* C30: _handle_response is total: whatever the response body, a request
\* either returns an envelope whose code is 0 or raises KlingAPIError, and no
\* other exception comes out of it, a JSON body that is not an object
\* included.
C30_HandleResponseTotal ==
    Requested =>
        \/ /\ outcome.kind = "return"
           /\ outcome.value.kind = "object"
           /\ Get(outcome.value, "code", 0) = 0
        \/ Raised("KlingAPIError")

====
